---- MODULE Spec2Model ----
(***************************************************************************)
(* gcp_helpers.firestore.collections: filter value objects, the collection *)
(* and collection-group accessors that compile them into query-builder     *)
(* calls, and the result wrappers that shape the retrieved snapshots.      *)
(*                                                                         *)
(* The document store behind the client handle is a finite map from        *)
(* document paths to field mappings.  A path is the sequence of its        *)
(* "/"-separated segments.  A Python str is a TLA+ string; a Python dict   *)
(* is a function from its keys.  The model follows one caller: `obj` is    *)
(* the object returned by the caller's most recent accessor call and       *)
(* `last` records the most recent call, its arguments and its outcome.     *)
(* Result objects are per-response views: the caller makes a call, shapes  *)
(* what it returned, and drops it (Done) before the next call.             *)
(***************************************************************************)
EXTENDS Integers, Sequences, FiniteSets, TLC

VARIABLES
    store,      \* the document store: [set of document paths -> field mapping]
    obj,        \* the live result object (FirestoreResult, FirestoreMultiResult or None)
    last,       \* the most recent call: operation, arguments, builder calls, outcome
    streamed    \* history: the snapshots the most recent query stream has yielded

vars == <<store, obj, last, streamed>>

-----------------------------------------------------------------------------
(* Bounds of the model *)

MaxFilters == 2     \* longest filter list passed to search
MaxLimit == 2       \* largest limit passed to search
MaxShapes == 2      \* shaping calls followed on one FirestoreMultiResult

-----------------------------------------------------------------------------
(* The universe of documents *)

GroupName == "posts"
Ids == {"p1", "p2"}
Cols == {<<"users", "a", "posts">>, <<"users", "b", "posts">>}

\* Parent paths a caller may hand to the group's point read: the path of the
\* parent document and the path of the subcollection itself.
ParentPaths == {<<"users", "a">>, <<"users", "b">>} \cup Cols

D1 == [name |-> "x"]
D2 == [name |-> "y", docId |-> "old"]
DataSet == {D1, D2}

\* Store-defined order of a stream: ascending document name.
NameOrder ==
    << <<"users", "a", "posts", "p1">>, <<"users", "a", "posts", "p2">>,
       <<"users", "b", "posts", "p1">> >>

Reverse(s) == [i \in 1..Len(s) |-> s[Len(s) + 1 - i]]

Range(s) == {s[i] : i \in 1..Len(s)}

Last(s) == s[Len(s)]

-----------------------------------------------------------------------------
(* Python values *)

PyNone == [kind |-> "None", items |-> <<>>]
PyStr(s) == [kind |-> "str", items |-> <<s>>]
PyFilter(t) == [kind |-> "FirestoreFilter", items |-> t]
PyList(s) == [kind |-> "list", items |-> s]

\* isinstance: FirestoreFilter is declared as a subclass of list.
IsFilter(x) == x.kind = "FirestoreFilter"
IsList(x) == x.kind \in {"list", "FirestoreFilter"}

PyInt(n) == [kind |-> "int", n |-> n]

\* Truth value of an argument: None, the empty list and 0 are false.
Truthy(x) ==
    /\ x.kind # "None"
    /\ IsList(x) => Len(x.items) > 0
    /\ x.kind = "int" => x.n # 0

\* Iterating a str yields its characters (the strings the model uses).
StrIter(s) ==
    CASE s = "name" -> <<"n", "a", "m", "e">>
      [] s = "==" -> <<"=", "=">>
      [] s = "!=" -> <<"!", "=">>
      [] s = "x" -> <<"x">>
      [] s = "y" -> <<"y">>
      [] OTHER -> <<s>>

\* for f in x: the elements of a list; a FirestoreFilter, being a list,
\* yields its three stored strings.
Iter(x) ==
    IF IsFilter(x) THEN [i \in 1..Len(x.items) |-> PyStr(x.items[i])]
    ELSE x.items

\* *f in a call: the positional arguments f unpacks to.
Star(f) ==
    IF f.kind = "str" THEN StrIter(f.items[1]) ELSE f.items

Ok(v) == [raised |-> FALSE, value |-> v]
Raise(e) == [raised |-> TRUE, exc |-> e]

-----------------------------------------------------------------------------
(* FirestoreFilter *)

ALLOWED_OP ==
    <<"<", "<=", "==", ">", ">=", "!=", "array-contains", "array-contains-any",
      "in", "not-in">>

FirestoreFilter_init_unchecked(field, op, value) ==
    Ok(<<field, op, value>>)

FirestoreFilter_init(field, op, value) ==
    IF op \notin Range(ALLOWED_OP) THEN Raise("ValueError")
    ELSE Ok(<<field, op, value>>)

\* Operators a caller may try: the allowlist and some outside it.
TriedOps == Range(ALLOWED_OP) \cup {"=", "like", "contains", ""}
TriedFields == {"name", "docId"}
TriedValues == {"x", "y"}

\* The caller holds no result of an earlier call.
Settled ==
    last.op \in {"init", "Collection.add", "Collection.delete",
                 "Collection.delete_by_path"}

NewFilter(field, op, value) ==
    /\ Settled
    /\ last' = [op |-> "FirestoreFilter", field |-> field, operator |-> op,
                value |-> value, out |-> FirestoreFilter_init(field, op, value)]
    /\ obj' = PyNone
    /\ UNCHANGED <<store, streamed>>

-----------------------------------------------------------------------------
(* The store behind the client handle *)

EmptyMap == [k \in {} |-> ""]

\* d[k] = v on a dict: adds the key or overwrites it.
DictSet(d, k, v) == [x \in DOMAIN d \cup {k} |-> IF x = k THEN v ELSE d[x]]

\* document(path).get(): a snapshot, existing or not.  Its mapping is handed
\* out by to_dict() as a fresh copy, so callers never alter the snapshot.
Snapshot(path) ==
    [id |-> Last(path), path |-> path, exists |-> path \in DOMAIN store,
     data |-> IF path \in DOMAIN store THEN store[path] ELSE EmptyMap]

Snapshots(paths) == [i \in 1..Len(paths) |-> Snapshot(paths[i])]

InCollection(path, col) == SubSeq(path, 1, Len(path) - 1) = col
InGroup(path, name) == Len(path) >= 2 /\ path[Len(path) - 1] = name

\* collection(name).stream() and collection_group(name).stream()
CollectionDocs(col) ==
    Snapshots(SelectSeq(NameOrder,
                        LAMBDA p : p \in DOMAIN store /\ InCollection(p, col)))
GroupDocs(name) ==
    Snapshots(SelectSeq(NameOrder,
                        LAMBDA p : p \in DOMAIN store /\ InGroup(p, name)))

Endpoints ==
    {[kind |-> "collection", path |-> c] : c \in Cols}
        \cup {[kind |-> "collection_group", path |-> <<GroupName>>]}

EndpointDocs(ep) ==
    IF ep.kind = "collection" THEN CollectionDocs(ep.path)
    ELSE GroupDocs(ep.path[1])

Call(m, a, n) == [method |-> m, args |-> a, n |-> n]

\* where(field, op, value) of the store's query builder
Matches(doc, args) ==
    /\ args[1] \in DOMAIN doc.data
    /\ CASE args[2] = "==" -> doc.data[args[1]] = args[3]
         [] args[2] = "!=" -> doc.data[args[1]] # args[3]
         [] OTHER -> FALSE

ValueRank(v) == CASE v = "x" -> 1 [] v = "y" -> 2 [] OTHER -> 3

\* order_by(field, direction): records lacking the field drop out; ties keep
\* document-name order, and descending reverses the whole order.
Ordered(docs, field, direction) ==
    LET has == SelectSeq(docs, LAMBDA d : field \in DOMAIN d.data)
        asc == SelectSeq(has, LAMBDA d : ValueRank(d.data[field]) = 1)
                \o SelectSeq(has, LAMBDA d : ValueRank(d.data[field]) = 2)
                \o SelectSeq(has, LAMBDA d : ValueRank(d.data[field]) = 3)
    IN  IF direction = "DESCENDING" THEN Reverse(asc) ELSE asc

Capped(docs, n) == SubSeq(docs, 1, IF n < Len(docs) THEN n ELSE Len(docs))

RECURSIVE RunQuery(_, _)
RunQuery(docs, calls) ==
    IF calls = <<>> THEN docs
    ELSE LET c == Head(calls)
             next == CASE c.method = "where" ->
                              SelectSeq(docs, LAMBDA d : Matches(d, c.args))
                       [] c.method = "order_by" ->
                              Ordered(docs, c.args[1], c.args[2])
                       [] c.method = "limit" -> Capped(docs, c.n)
                       [] OTHER -> docs
         IN  RunQuery(next, Tail(calls))

-----------------------------------------------------------------------------
(* FirestoreResult *)

FirestoreResult(document) == [kind |-> "FirestoreResult", doc |-> document]

FirestoreResult_dict(self, append_id) ==
    IF append_id THEN DictSet(self.doc.data, "docId", self.doc.id)
    ELSE self.doc.data

\* Caller-supplied types: a constructor taking exactly its fields as keywords.
NoClass == [kind |-> "None", name |-> "None", fields |-> {}]
Named == [kind |-> "type", name |-> "Named", fields |-> {"name", "docId"}]
Strict == [kind |-> "type", name |-> "Strict", fields |-> {"name"}]
ClassRefs == {NoClass, Named, Strict}

\* class_ref(**item)
Construct(class_ref, item) ==
    IF class_ref.kind = "type" /\ DOMAIN item = class_ref.fields
    THEN Ok([cls |-> class_ref.name, attrs |-> item])
    ELSE Raise("TypeError")

to_class(self, class_ref) ==
    LET made == Construct(class_ref, FirestoreResult_dict(self, TRUE))
    IN  IF made.raised THEN Ok(PyNone) ELSE made

-----------------------------------------------------------------------------
(* FirestoreMultiResult *)

to_raw_lazy(self) == self

to_raw(self) == [self EXCEPT !.raw = self.stream, !.stream = <<>>]

FirestoreMultiResult(stream) ==
    to_raw([kind |-> "FirestoreMultiResult", stream |-> stream, raw |-> <<>>])

RECURSIVE to_list_loop(_, _, _, _)
to_list_loop(docs, append_id, class_ref, res) ==
    IF docs = <<>> THEN Ok(res)
    ELSE LET doc == Head(docs)
             item == IF append_id THEN DictSet(doc.data, "docId", doc.id)
                     ELSE doc.data
         IN  IF class_ref.kind = "type"
             THEN LET made == Construct(class_ref, item)
                  IN  IF made.raised THEN made
                      ELSE to_list_loop(Tail(docs), append_id, class_ref,
                                        Append(res, made.value))
             ELSE to_list_loop(Tail(docs), append_id, class_ref,
                               Append(res, item))

to_list_no_id(self, append_id, class_ref) ==
    to_list_loop(self.raw, FALSE, class_ref, <<>>)

to_list(self, append_id, class_ref) ==
    to_list_loop(self.raw, append_id, class_ref, <<>>)

RECURSIVE to_dict_loop(_, _, _)
to_dict_loop(docs, append_id, res) ==
    IF docs = <<>> THEN Ok(res)
    ELSE LET doc == Head(docs)
             item == IF append_id THEN DictSet(doc.data, "docId", doc.id)
                     ELSE doc.data
         IN  to_dict_loop(Tail(docs), append_id, DictSet(res, doc.id, item))

to_dict_always_id(self, append_id, class_ref) ==
    to_dict_loop(self.raw, TRUE, EmptyMap)

to_dict(self, append_id, class_ref) ==
    to_dict_loop(self.raw, append_id, EmptyMap)

-----------------------------------------------------------------------------
(* Query building: FirestoreCollection.search, FirestoreCollectionGroup.search *)

NewQuery == [calls |-> <<>>, raised |-> FALSE]

\* query.where(*args): the builder takes (field, op, value); any other number
\* of positional arguments is a TypeError at the call, which ends the search.
Where(q, args) ==
    IF q.raised THEN q
    ELSE [calls |-> Append(q.calls, Call("where", args, 0)),
          raised |-> Len(args) # 3]

RECURSIVE WhereEach(_, _)
WhereEach(q, fs) ==
    IF fs = <<>> THEN q ELSE WhereEach(Where(q, Star(Head(fs))), Tail(fs))

OrderByCall(q, order_by) ==
    IF q.raised THEN q
    ELSE [q EXCEPT !.calls = Append(@, Call("order_by",
                        <<order_by.field_path, order_by.direction>>, 0))]

LimitCall(q, limit) ==
    IF q.raised THEN q
    ELSE [q EXCEPT !.calls = Append(@, Call("limit", <<>>, limit.n))]

StreamCall(q) ==
    IF q.raised THEN q
    ELSE [q EXCEPT !.calls = Append(@, Call("stream", <<>>, 0))]

FirestoreCollection_search_limit_first(filter_query, order_by, limit) ==
    LET q1 == IF Truthy(filter_query) /\ IsFilter(filter_query)
              THEN Where(NewQuery, Star(filter_query))
              ELSE IF Truthy(filter_query) /\ IsList(filter_query)
                   THEN WhereEach(NewQuery, Iter(filter_query))
                   ELSE NewQuery
        q2 == IF Truthy(limit) THEN LimitCall(q1, limit) ELSE q1
        q3 == IF Truthy(order_by) THEN OrderByCall(q2, order_by) ELSE q2
    IN  StreamCall(q3)

FirestoreCollection_search(filter_query, order_by, limit) ==
    LET q1 == IF Truthy(filter_query) /\ IsFilter(filter_query)
              THEN Where(NewQuery, Star(filter_query))
              ELSE IF Truthy(filter_query) /\ IsList(filter_query)
                   THEN WhereEach(NewQuery, Iter(filter_query))
                   ELSE NewQuery
        q2 == IF Truthy(order_by) THEN OrderByCall(q1, order_by) ELSE q1
        q3 == IF Truthy(limit) THEN LimitCall(q2, limit) ELSE q2
    IN  StreamCall(q3)

FirestoreCollectionGroup_search(filter_query, order_by, limit) ==
    LET q1 == IF Truthy(filter_query) /\ IsList(filter_query)
              THEN WhereEach(NewQuery, Iter(filter_query))
              ELSE IF Truthy(filter_query) /\ IsFilter(filter_query)
                   THEN Where(NewQuery, Star(filter_query))
                   ELSE NewQuery
        q2 == IF Truthy(order_by) THEN OrderByCall(q1, order_by) ELSE q1
        q3 == IF Truthy(limit) THEN LimitCall(q2, limit) ELSE q2
    IN  StreamCall(q3)

\* Arguments a caller passes to search
SearchFilters ==
    {FirestoreFilter_init("name", o, "x").value : o \in {"==", "!="}}
SeqsUpTo(S, n) == UNION {[1..k -> S] : k \in 0..n}
FilterQueries ==
    {PyNone} \cup {PyFilter(f) : f \in SearchFilters}
        \cup {PyList([i \in DOMAIN s |-> PyFilter(s[i])]) :
                s \in SeqsUpTo(SearchFilters, MaxFilters)}
FirestoreOrderBy(field_path, direction) ==
    [kind |-> "FirestoreOrderBy", field_path |-> field_path,
     direction |-> direction]
OrderBys ==
    {PyNone} \cup {FirestoreOrderBy("name", d) : d \in {"ASCENDING", "DESCENDING"}}
Limits == {PyNone} \cup {PyInt(n) : n \in 1..MaxLimit}

Search(ep, filter_query, order_by, limit) ==
    LET q == IF ep.kind = "collection"
             THEN FirestoreCollection_search(filter_query, order_by, limit)
             ELSE FirestoreCollectionGroup_search(filter_query, order_by, limit)
        recs == RunQuery(EndpointDocs(ep), q.calls)
    IN  /\ Settled
        /\ last' = [op |-> "search", endpoint |-> ep,
                    filter_query |-> filter_query, order_by |-> order_by,
                    limit |-> limit, calls |-> q.calls,
                    out |-> IF q.raised THEN Raise("TypeError")
                            ELSE Ok("FirestoreMultiResult")]
        /\ obj' = IF q.raised THEN PyNone ELSE FirestoreMultiResult(recs)
        /\ streamed' = IF q.raised THEN <<>> ELSE recs
        /\ UNCHANGED store

GetAll(ep) ==
    LET q == StreamCall(NewQuery)
        recs == RunQuery(EndpointDocs(ep), q.calls)
    IN  /\ Settled
        /\ last' = [op |-> "get_all", endpoint |-> ep, calls |-> q.calls,
                    out |-> Ok("FirestoreMultiResult")]
        /\ obj' = FirestoreMultiResult(recs)
        /\ streamed' = recs
        /\ UNCHANGED store

-----------------------------------------------------------------------------
(* Point reads *)

\* self._col_ref.document(docId)
CollectionDocPath(col, docId) == col \o <<docId>>

\* f"{parent_path}/{docId}"
GroupDocPath(group, docId, parent_path) == parent_path \o <<docId>>

FoundOrNone(document) ==
    IF document.exists THEN FirestoreResult(document) ELSE PyNone

FirestoreCollection_get_one_blind(col, docId) ==
    FirestoreResult(Snapshot(CollectionDocPath(col, docId)))

FirestoreCollection_get_one(col, docId) ==
    FoundOrNone(Snapshot(CollectionDocPath(col, docId)))

is_document_exists(col, docId) ==
    Truthy(FirestoreCollection_get_one(col, docId))

FirestoreCollectionGroup_get_one(group, docId, parent_path) ==
    FoundOrNone(Snapshot(GroupDocPath(group, docId, parent_path)))

\* self._col_ref.limit(1).stream()
FirstFromStreamQuery ==
    StreamCall(LimitCall(NewQuery, PyInt(1)))

\* next((doc for doc in query if doc.id == docId), None), then the existence test
get_first_from_stream(group, docId) ==
    LET query == RunQuery(GroupDocs(group), FirstFromStreamQuery.calls)
        hits == SelectSeq(query, LAMBDA doc : doc.id = docId)
    IN  IF hits # <<>> /\ Head(hits).exists THEN FirestoreResult(Head(hits))
        ELSE PyNone

CollectionGetOne(col, docId) ==
    /\ Settled
    /\ last' = [op |-> "Collection.get_one", col |-> col, docId |-> docId,
                reads |-> <<CollectionDocPath(col, docId)>>, calls |-> <<>>,
                out |-> Ok(FirestoreCollection_get_one(col, docId))]
    /\ obj' = FirestoreCollection_get_one(col, docId)
    /\ UNCHANGED <<store, streamed>>

IsDocumentExists(col, docId) ==
    /\ Settled
    /\ last' = [op |-> "Collection.is_document_exists", col |-> col,
                docId |-> docId,
                reads |-> <<CollectionDocPath(col, docId)>>, calls |-> <<>>,
                out |-> Ok(is_document_exists(col, docId))]
    /\ obj' = PyNone
    /\ UNCHANGED <<store, streamed>>

GroupGetOne(docId, parent_path) ==
    /\ Settled
    /\ last' = [op |-> "CollectionGroup.get_one", docId |-> docId,
                parent_path |-> parent_path,
                reads |-> <<GroupDocPath(GroupName, docId, parent_path)>>,
                calls |-> <<>>,
                out |-> Ok(FirestoreCollectionGroup_get_one(GroupName, docId,
                                                            parent_path))]
    /\ obj' = FirestoreCollectionGroup_get_one(GroupName, docId, parent_path)
    /\ UNCHANGED <<store, streamed>>

GetFirstFromStream(docId) ==
    /\ Settled
    /\ last' = [op |-> "CollectionGroup.get_first_from_stream",
                docId |-> docId, reads |-> <<>>,
                calls |-> FirstFromStreamQuery.calls,
                out |-> Ok(get_first_from_stream(GroupName, docId))]
    /\ obj' = get_first_from_stream(GroupName, docId)
    /\ streamed' = RunQuery(GroupDocs(GroupName), FirstFromStreamQuery.calls)
    /\ UNCHANGED store

-----------------------------------------------------------------------------
(* Writes: FirestoreCollection.add, delete, delete_by_path *)

StorePut(path, fields) ==
    [p \in DOMAIN store \cup {path} |-> IF p = path THEN fields ELSE store[p]]

StoreDrop(path) == [p \in DOMAIN store \ {path} |-> store[p]]

\* add(fields, docId): the store refuses an id that is already taken.
Add(col, fields, docId) ==
    LET path == CollectionDocPath(col, docId)
    IN  /\ Settled
        /\ path \in Range(NameOrder)
        /\ store' = IF path \in DOMAIN store THEN store
                    ELSE StorePut(path, fields)
        /\ last' = [op |-> "Collection.add",
                    out |-> IF path \in DOMAIN store THEN Raise("Conflict")
                            ELSE Ok(path)]
        /\ obj' = PyNone
        /\ UNCHANGED streamed

\* add(fields): the store picks an id not yet used in the collection.
AddAuto(col, fields) ==
    \E docId \in Ids :
        /\ Settled
        /\ CollectionDocPath(col, docId) \in Range(NameOrder) \ DOMAIN store
        /\ store' = StorePut(CollectionDocPath(col, docId), fields)
        /\ last' = [op |-> "Collection.add", auto |-> TRUE,
                    out |-> Ok(CollectionDocPath(col, docId))]
        /\ obj' = PyNone
        /\ UNCHANGED streamed

Delete(col, docId) ==
    /\ Settled
    /\ store' = StoreDrop(CollectionDocPath(col, docId))
    /\ last' = [op |-> "Collection.delete", out |-> Ok("deleted")]
    /\ obj' = PyNone
    /\ UNCHANGED streamed

DeleteByPath(document_path) ==
    /\ Settled
    /\ store' = StoreDrop(document_path)
    /\ last' = [op |-> "Collection.delete_by_path", out |-> Ok("deleted")]
    /\ obj' = PyNone
    /\ UNCHANGED streamed

-----------------------------------------------------------------------------
(* Shaping calls on the live result object *)

IsShaping(l) == l.op \in {"to_list", "to_dict"}
Shapes(l) == IF IsShaping(l) THEN l.nth ELSE 0
Before(l) == IF IsShaping(l) THEN <<l.op, l.append_id>> ELSE <<"none", FALSE>>

ResultDict(append_id) ==
    /\ obj.kind = "FirestoreResult"
    /\ last' = [op |-> "dict", append_id |-> append_id,
                out |-> Ok(FirestoreResult_dict(obj, append_id))]
    /\ UNCHANGED <<store, obj, streamed>>

ResultToClass(class_ref) ==
    /\ obj.kind = "FirestoreResult"
    /\ last' = [op |-> "to_class", class_ref |-> class_ref,
                out |-> to_class(obj, class_ref)]
    /\ UNCHANGED <<store, obj, streamed>>

ToList(append_id, class_ref) ==
    /\ obj.kind = "FirestoreMultiResult"
    /\ Shapes(last) < MaxShapes
    /\ last' = [op |-> "to_list", append_id |-> append_id,
                class_ref |-> class_ref, nth |-> Shapes(last) + 1,
                before |-> Before(last),
                out |-> to_list(obj, append_id, class_ref)]
    /\ UNCHANGED <<store, obj, streamed>>

ToDict(append_id, class_ref) ==
    /\ obj.kind = "FirestoreMultiResult"
    /\ Shapes(last) < MaxShapes
    /\ last' = [op |-> "to_dict", append_id |-> append_id,
                class_ref |-> class_ref, nth |-> Shapes(last) + 1,
                before |-> Before(last),
                out |-> to_dict(obj, append_id, class_ref)]
    /\ UNCHANGED <<store, obj, streamed>>

\* The caller is finished with the result it holds.
Done ==
    /\ ~Settled
    /\ last' = [op |-> "init"]
    /\ obj' = PyNone
    /\ streamed' = <<>>
    /\ UNCHANGED store

-----------------------------------------------------------------------------
(* The specification *)

Init ==
    /\ store = [p \in {} |-> D1]
    /\ obj = PyNone
    /\ last = [op |-> "init"]
    /\ streamed = <<>>

Next ==
    \/ \E f \in TriedFields, o \in TriedOps, v \in TriedValues : NewFilter(f, o, v)
    \/ \E c \in Cols, d \in DataSet, i \in Ids : Add(c, d, i)
    \/ \E c \in Cols, d \in DataSet : AddAuto(c, d)
    \/ \E c \in Cols, i \in Ids : Delete(c, i)
    \/ \E p \in Range(NameOrder) : DeleteByPath(p)
    \/ \E ep \in Endpoints : GetAll(ep)
    \/ \E ep \in Endpoints, fq \in FilterQueries, ob \in OrderBys, lim \in Limits :
            Search(ep, fq, ob, lim)
    \/ \E c \in Cols, i \in Ids : CollectionGetOne(c, i)
    \/ \E c \in Cols, i \in Ids : IsDocumentExists(c, i)
    \/ \E i \in Ids, pp \in ParentPaths : GroupGetOne(i, pp)
    \/ \E i \in Ids : GetFirstFromStream(i)
    \/ \E a \in BOOLEAN : ResultDict(a)
    \/ \E c \in ClassRefs : ResultToClass(c)
    \/ \E a \in BOOLEAN, c \in ClassRefs : ToList(a, c)
    \/ \E a \in BOOLEAN, c \in ClassRefs : ToDict(a, c)
    \/ Done

Spec == Init /\ [][Next]_vars

-----------------------------------------------------------------------------
(* Properties *)

\* What a record looks like once shaped, written from the stream's records.
Shaped(doc, append_id) ==
    [k \in DOMAIN doc.data \cup (IF append_id THEN {"docId"} ELSE {}) |->
        IF append_id /\ k = "docId" THEN doc.id ELSE doc.data[k]]

StreamedIds == {streamed[i].id : i \in 1..Len(streamed)}

\* Position of the last streamed record with the given id.
LastWithId(id) ==
    CHOOSE i \in 1..Len(streamed) :
        /\ streamed[i].id = id
        /\ \A j \in (i + 1)..Len(streamed) : streamed[j].id # id

\* C1: constructing a filter with one of the ten allowed operators succeeds
\* and the filter holds exactly (field, op, value) in that order; with any
\* other operator it fails with the invalid-operator error and yields no filter.
C1_FilterAllowlist ==
    last.op = "FirestoreFilter" =>
        IF last.operator \in {"<", "<=", "==", ">", ">=", "!=", "array-contains",
                              "array-contains-any", "in", "not-in"}
        THEN /\ ~last.out.raised
             /\ last.out.value = <<last.field, last.operator, last.value>>
        ELSE /\ last.out = [raised |-> TRUE, exc |-> "ValueError"]
             /\ obj = PyNone

C1_Witness ==
    /\ last.op = "FirestoreFilter"
    /\ last.operator = "like"
    /\ last.out.raised

\* C2: to_list(append_id=True) returns one entry per record of the stream, in
\* stream order, the i-th entry being the i-th record's mapping with docId
\* set to that record's id.
C2_ToListAppendId ==
    (last.op = "to_list" /\ last.append_id /\ last.class_ref = NoClass) =>
        /\ ~last.out.raised
        /\ Len(last.out.value) = Len(streamed)
        /\ \A i \in 1..Len(streamed) :
              /\ last.out.value[i] = Shaped(streamed[i], TRUE)
              /\ last.out.value[i]["docId"] = streamed[i].id

C2_Witness ==
    /\ last.op = "to_list" /\ last.append_id /\ last.class_ref = NoClass
    /\ Len(streamed) = 3
    /\ streamed[1].id = streamed[3].id
    /\ "docId" \in DOMAIN streamed[2].data
    /\ ~last.out.raised

\* C3 as stated: the keys of to_dict(append_id=False) are exactly the ids of
\* the stream's records, and no value mapping contains a docId key.
C3_NoDocIdKeyAtAll ==
    (last.op = "to_dict" /\ ~last.append_id) =>
        /\ ~last.out.raised
        /\ DOMAIN last.out.value = StreamedIds
        /\ \A k \in DOMAIN last.out.value :
              "docId" \notin DOMAIN last.out.value[k]

\* C3 as amended: the keys of to_dict(append_id=False) are exactly the ids of
\* the stream's records, and each value is the stored mapping of the last
\* streamed record with that id, unchanged: no docId is injected, so a value
\* has a docId key only when the stored record has a field of that name.
C3_ToDictStoredMappings ==
    (last.op = "to_dict" /\ ~last.append_id) =>
        /\ ~last.out.raised
        /\ DOMAIN last.out.value = StreamedIds
        /\ \A k \in DOMAIN last.out.value :
              last.out.value[k] = streamed[LastWithId(k)].data

C3_Witness ==
    /\ last.op = "to_dict" /\ ~last.append_id
    /\ Len(streamed) = 3
    /\ \E k \in DOMAIN last.out.value : "docId" \in DOMAIN last.out.value[k]
    /\ \E k \in DOMAIN last.out.value : "docId" \notin DOMAIN last.out.value[k]

\* C4: the stream is drained once, when the FirestoreMultiResult is built, and
\* nothing is left of it for a later call to read; every to_list and to_dict
\* call, whatever calls came before it, returns what the stream's records
\* shape to.
C4_MaterialisedOnce ==
    /\ obj.kind = "FirestoreMultiResult" =>
          /\ obj.stream = <<>>
          /\ obj.raw = streamed
    /\ (last.op = "to_list" /\ last.class_ref = NoClass) =>
          last.out = Ok([i \in 1..Len(streamed) |->
                            Shaped(streamed[i], last.append_id)])
    /\ last.op = "to_dict" =>
          last.out = Ok([k \in StreamedIds |->
                            Shaped(streamed[LastWithId(k)], last.append_id)])

C4_Witness ==
    /\ last.op = "to_list" /\ ~last.append_id /\ last.class_ref = NoClass
    /\ last.nth = MaxShapes
    /\ last.before = <<"to_dict", TRUE>>
    /\ Len(streamed) >= 2
    /\ \A i \in 1..Len(streamed) : "docId" \notin DOMAIN last.out.value[i]

\* C5: for every argument triple, a single filter passed directly included,
\* the group's search issues the same builder calls as the collection's
\* search; a single filter is one where(field, op, value) call.
C5_GroupSearchSameCalls ==
    (last.op = "search" /\ last.endpoint.kind = "collection_group") =>
        /\ ~last.out.raised
        /\ last.calls = FirestoreCollection_search(last.filter_query,
                            last.order_by, last.limit).calls
        /\ IsFilter(last.filter_query) =>
              last.calls[1] = Call("where", last.filter_query.items, 0)

\* The builder calls the arguments stand for: one where per filter, then
\* order_by and limit when given, then stream.
ExpectedWheres(fq) ==
    CASE fq.kind = "FirestoreFilter" -> <<Call("where", fq.items, 0)>>
      [] fq.kind = "list" ->
            [i \in 1..Len(fq.items) |-> Call("where", fq.items[i].items, 0)]
      [] OTHER -> <<>>

ExpectedTail(ob, lim) ==
    (IF ob.kind = "None" THEN <<>>
     ELSE <<Call("order_by", <<ob.field_path, ob.direction>>, 0)>>)
    \o (IF lim.kind = "None" THEN <<>> ELSE <<Call("limit", <<>>, lim.n)>>)
    \o <<Call("stream", <<>>, 0)>>

\* C6: the collection's search issues one where per filter in list order (one
\* for a single filter), then order_by iff given, then limit iff given, then
\* exactly one stream; absent arguments add no call.
C6_CollectionSearchOrder ==
    (last.op = "search" /\ last.endpoint.kind = "collection") =>
        /\ ~last.out.raised
        /\ last.calls = ExpectedWheres(last.filter_query)
                            \o ExpectedTail(last.order_by, last.limit)

C6_Witness ==
    /\ last.op = "search" /\ last.endpoint.kind = "collection"
    /\ last.filter_query.kind = "list"
    /\ Len(last.filter_query.items) = 2
    /\ last.filter_query.items[1] # last.filter_query.items[2]
    /\ last.order_by.kind # "None"
    /\ last.limit.kind # "None"
    /\ Len(last.calls) = 5

NoGroupRecord(docId) ==
    \A p \in DOMAIN store : ~(InGroup(p, GroupName) /\ Last(p) = docId)

C8_GroupPointPath ==
    last.op = "CollectionGroup.get_one" =>
        LET path == last.parent_path \o <<GroupName, last.docId>>
        IN  /\ last.reads = <<path>>
            /\ last.calls = <<>>
            /\ path \notin DOMAIN store => last.out.value = PyNone

\* C9: get_first_from_stream(id) returns a FirestoreResult wrapping the first
\* record of the group, in stream order, whose id is id, whenever the group
\* has one, and None only when it has none.
C9_FirstFromStreamFinds ==
    last.op = "CollectionGroup.get_first_from_stream" =>
        LET hits == SelectSeq(GroupDocs(GroupName),
                              LAMBDA d : d.id = last.docId)
        IN  IF hits = <<>> THEN last.out.value = PyNone
            ELSE last.out.value = [kind |-> "FirestoreResult",
                                   doc |-> Head(hits)]

\* C10: a failed construction is never fatal: to_class returns None and
\* raises nothing, and to_list with a class_ref completes without raising and
\* returns one entry per record of the stream.
C10_ProjectionNeverFatal ==
    /\ last.op = "to_class" =>
          /\ ~last.out.raised
          /\ (DOMAIN Shaped(obj.doc, TRUE) # last.class_ref.fields) =>
                last.out.value = PyNone
    /\ last.op = "to_list" =>
          /\ ~last.out.raised
          /\ Len(last.out.value) = Len(streamed)

====
